---- MODULE Spec2Model ----
(***************************************************************************)
(* Model of the virtual CPU of src/src/cpu.rs: struct Cpu and Cpu::run,    *)
(* one action per arm of the dispatch in the loop body of run.             *)
(***************************************************************************)
EXTENDS Integers, Sequences, FiniteSets, TLC

VARIABLES registers, memory, program_counter, stack, stack_pointer,
          current_opcode, status, panic_msg, overflow_checks, inspection

vars == <<registers, memory, program_counter, stack, stack_pointer,
          current_opcode, status, panic_msg, overflow_checks, inspection>>

(* ------------------------------------------------------------------ *)
(* Sizes of the machine                                               *)
(* ------------------------------------------------------------------ *)
NumRegisters == 16
MemSize == 4096
StackSize == 16
\* width of usize on the 64-bit target
UsizeBits == 64

(* ------------------------------------------------------------------ *)
(* usize values: a 64-bit value is held as its digits in base 2^16,   *)
(* least significant first, so that usize::MAX = 2^64 - 1 is a value  *)
(* of the model: <<65535, 65535, 65535, 65535>>                       *)
(* ------------------------------------------------------------------ *)
LimbBits == 16
LimbBase == 2 ^ LimbBits
UsizeLimbs == UsizeBits \div LimbBits

\* the usize of the number n, for n below 2^31
UsizeOf(n) ==
    [i \in 1 .. UsizeLimbs |->
        IF i = 1 THEN n % LimbBase
        ELSE IF i = 2 THEN n \div LimbBase
        ELSE 0]

\* u < n, for a number n up to 2^16: the test of an index against a length
UsizeLt(u, n) == (\A i \in 2 .. UsizeLimbs : u[i] = 0) /\ u[1] < n

\* the number an in-bounds index u stands for
UsizeIndex(u) == u[1]

\* u - 1 without overflow checks: the borrow runs through the zero digits,
\* 0 becomes usize::MAX, every digit 65535
UsizeWrappingDec(u) ==
    [i \in 1 .. UsizeLimbs |->
        IF \A j \in 1 .. i - 1 : u[j] = 0
        THEN (u[i] + LimbBase - 1) % LimbBase
        ELSE u[i]]

(* ------------------------------------------------------------------ *)
(* Bounds of the checked family of programs                           *)
(* ------------------------------------------------------------------ *)
ProgLen == 2

\* the instruction words a caller may poke at addresses 0, 2, ...
WordSet == { 0, 273, 291,
             4114, 8432, 12306, 16626, 20498, 24818, 28703, 33010,
             36864, 36865, 40958, 40959,
             40960, 41216, 41472,
             45056, 49152 }
\*  0x0000 HALT   0x0111 NOP   0x0123 operation 0, no handler
\*  0x1012 0x20F0 0x3012 0x40F2 0x5012 0x60F2 0x701F 0x80F2  (words of the tests)
\*  0x9000 0x9001 0x9FFE 0x9FFF JUMP
\*  0xA000 0xA100 0xA200 CALL      0xB000 RET      0xC000 no handler

\* initial values the caller writes to registers 0 and 1
RegInits == { <<3, 4>>, <<200, 100>>, <<255, 255>> }

(* ------------------------------------------------------------------ *)
(* Bit operations on unsigned integers                                *)
(* ------------------------------------------------------------------ *)
RECURSIVE BitOr(_, _)
BitOr(a, b) ==
    IF a = 0 THEN b
    ELSE IF b = 0 THEN a
    ELSE (IF a % 2 = 1 \/ b % 2 = 1 THEN 1 ELSE 0) + 2 * BitOr(a \div 2, b \div 2)

RECURSIVE BitAnd(_, _)
BitAnd(a, b) ==
    IF a = 0 \/ b = 0 THEN 0
    ELSE (IF a % 2 = 1 /\ b % 2 = 1 THEN 1 ELSE 0) + 2 * BitAnd(a \div 2, b \div 2)

\* a << n on a u16
Shl16(a, n) == (a * (2 ^ n)) % 65536

\* a >> n
Shr(a, n) == a \div (2 ^ n)

(* ------------------------------------------------------------------ *)
(* Cpu::new and the caller's pokes before run                         *)
(* ------------------------------------------------------------------ *)
ZeroRegisters == [i \in 0 .. NumRegisters - 1 |-> 0]
\* memory holds the cells the caller wrote; every other cell of the 0x1000
\* still holds the 0 of Cpu::new
ZeroMemory == [a \in {} |-> 0]
ZeroStack == [i \in 0 .. StackSize - 1 |-> 0]

\* cpu.memory[addr] = high byte; cpu.memory[addr + 1] = low byte
PokeWord(mem, addr, w) ==
    [a \in (DOMAIN mem) \cup {addr, addr + 1} |->
        IF a = addr THEN w \div 256
        ELSE IF a = addr + 1 THEN w % 256
        ELSE mem[a]]

\* subroutines every checked memory holds:
\*   0x100: ADD-REG r0, r1 -> r2 ; RET        (the callee of test_fn_call_and_ret)
\*   0x200: CALL 0x100 ; RET
\*   0xFFE: NOP                                (the last word of memory)
Library ==
    PokeWord(PokeWord(PokeWord(PokeWord(PokeWord(ZeroMemory,
        256, 4114), 258, 45056), 512, 41216), 514, 45056), 4094, 273)

RECURSIVE PokeProgram(_, _, _)
PokeProgram(mem, prog, n) ==
    IF n = 0 THEN mem
    ELSE PokeProgram(PokeWord(mem, 2 * (n - 1), prog[n - 1]), prog, n - 1)

Init ==
    \E prog \in [0 .. ProgLen - 1 -> WordSet], rv \in RegInits, oc \in BOOLEAN :
        /\ registers = [ZeroRegisters EXCEPT ![0] = rv[1], ![1] = rv[2]]
        /\ memory = PokeProgram(Library, prog, ProgLen)
        /\ program_counter = 0
        /\ stack = ZeroStack
        /\ stack_pointer = UsizeOf(0)
        /\ current_opcode = 0
        /\ status = "running"
        /\ panic_msg = "none"
        /\ overflow_checks = oc
        /\ inspection = <<>>

(* ------------------------------------------------------------------ *)
(* Cpu::run: loop condition, fetch, decode                            *)
(* ------------------------------------------------------------------ *)
\* variant: the bound of the loop is the memory size itself
LoopCondWholeMemory == program_counter < MemSize

LoopCond == program_counter < MemSize - 1

\* the two cells the fetch reads
FetchCells == {program_counter, program_counter + 1}

\* self.memory[a]
MemoryAt(a) == IF a \in DOMAIN memory THEN memory[a] ELSE 0

FetchOpcode ==
    BitOr(Shl16(MemoryAt(program_counter), 8), MemoryAt(program_counter + 1))

\* variant: the x field is taken without its mask
process_opcode_unmasked(w) ==
    <<Shr(w, 12), Shr(w, 8) % 256, BitAnd(Shr(w, 4), 15), BitAnd(w, 15)>>

process_opcode(w) ==
    <<Shr(w, 12), BitAnd(Shr(w, 8), 15), BitAnd(Shr(w, 4), 15), BitAnd(w, 15)>>

opcode_parts == process_opcode(FetchOpcode)

\* the loop body is entered and the word is not the terminating one
Dispatch(op) ==
    /\ status = "running"
    /\ LoopCond
    /\ FetchOpcode # 0
    /\ opcode_parts[1] = op

NopWord == opcode_parts = <<0, 1, 1, 1>>

\* variant: the advance is one cell
AdvancedPcByOne == program_counter + 1

\* self.program_counter += 2
AdvancedPc == program_counter + 2

Continue(regs) ==
    /\ registers' = regs
    /\ program_counter' = AdvancedPc
    /\ current_opcode' = FetchOpcode
    /\ UNCHANGED <<memory, stack, stack_pointer, status, panic_msg, overflow_checks, inspection>>

Panic(msg) ==
    /\ status' = "panicked"
    /\ panic_msg' = msg
    /\ current_opcode' = FetchOpcode
    /\ UNCHANGED <<registers, memory, program_counter, stack, overflow_checks, inspection>>

(* ------------------------------------------------------------------ *)
(* The loop ends                                                      *)
(* ------------------------------------------------------------------ *)
LoopExit ==
    /\ status = "running"
    /\ ~LoopCond
    /\ status' = "ended"
    /\ UNCHANGED <<registers, memory, program_counter, stack, stack_pointer,
                   current_opcode, panic_msg, overflow_checks, inspection>>

\* variant: the terminating word is tested after the advance
HaltAfterAdvance ==
    /\ status = "running"
    /\ LoopCond
    /\ FetchOpcode = 0
    /\ status' = "halted"
    /\ current_opcode' = FetchOpcode
    /\ program_counter' = AdvancedPc
    /\ UNCHANGED <<registers, memory, stack, stack_pointer, panic_msg, overflow_checks, inspection>>

Halt ==
    /\ status = "running"
    /\ LoopCond
    /\ FetchOpcode = 0
    /\ status' = "halted"
    /\ current_opcode' = FetchOpcode
    /\ UNCHANGED <<registers, memory, program_counter, stack, stack_pointer,
                   panic_msg, overflow_checks, inspection>>

(* ------------------------------------------------------------------ *)
(* Arms of the dispatch                                               *)
(* ------------------------------------------------------------------ *)
Nop ==
    /\ Dispatch(0)
    /\ NopWord
    /\ Continue(registers)

\* println!("Not implemented"): the line is written and the arm falls
\* through to the advance, or the write to standard output fails (full
\* device, closed pipe) and println! aborts the run
NotImplemented ==
    /\ status = "running"
    /\ LoopCond
    /\ FetchOpcode # 0
    /\ \/ opcode_parts[1] = 0 /\ ~NopWord
       \/ opcode_parts[1] > 11
    /\ \E stdout_ok \in BOOLEAN :
          IF stdout_ok
          THEN Continue(registers)
          ELSE Panic("failed printing to stdout") /\ UNCHANGED stack_pointer

\* u8 + u8: aborts when the build checks overflow, wraps otherwise
AddOverflows(a, b) == a + b > 255
WrappedAdd(a, b) == (a + b) % 256

AddInto(z, a, b) ==
    IF AddOverflows(a, b) /\ overflow_checks
    THEN Panic("attempt to add with overflow") /\ UNCHANGED stack_pointer
    ELSE Continue([registers EXCEPT ![z] = WrappedAdd(a, b)])

add_y_x ==
    /\ Dispatch(1)
    /\ AddInto(opcode_parts[4], registers[opcode_parts[2]], registers[opcode_parts[3]])

add_x ==
    /\ Dispatch(2)
    /\ AddInto(opcode_parts[4], registers[opcode_parts[2]], opcode_parts[3])

\* variant: the destination is written with reg[x] first, then combined with reg[y]
or_y_x_in_place ==
    /\ Dispatch(3)
    /\ Continue([registers EXCEPT ![opcode_parts[4]] =
                    BitOr(registers[opcode_parts[2]],
                          IF opcode_parts[4] = opcode_parts[3]
                          THEN registers[opcode_parts[2]]
                          ELSE registers[opcode_parts[3]])])

or_y_x ==
    /\ Dispatch(3)
    /\ Continue([registers EXCEPT ![opcode_parts[4]] =
                    BitOr(registers[opcode_parts[2]], registers[opcode_parts[3]])])

or_x ==
    /\ Dispatch(4)
    /\ Continue([registers EXCEPT ![opcode_parts[4]] =
                    BitOr(registers[opcode_parts[2]], opcode_parts[3])])

and_y_x ==
    /\ Dispatch(5)
    /\ Continue([registers EXCEPT ![opcode_parts[4]] =
                    BitAnd(registers[opcode_parts[2]], registers[opcode_parts[3]])])

\* variant: the result is also left in the operand register x
and_x_clobbers_x ==
    /\ Dispatch(6)
    /\ Continue([registers EXCEPT
                    ![opcode_parts[2]] = BitAnd(registers[opcode_parts[2]], opcode_parts[3]),
                    ![opcode_parts[4]] = BitAnd(registers[opcode_parts[2]], opcode_parts[3])])

and_x ==
    /\ Dispatch(6)
    /\ Continue([registers EXCEPT ![opcode_parts[4]] =
                    BitAnd(registers[opcode_parts[2]], opcode_parts[3])])

\* variant: the two registers are exchanged
mov_y_x_swaps ==
    /\ Dispatch(7)
    /\ Continue([registers EXCEPT ![opcode_parts[2]] = registers[opcode_parts[3]],
                                  ![opcode_parts[3]] = registers[opcode_parts[2]]])

mov_y_x ==
    /\ Dispatch(7)
    /\ Continue([registers EXCEPT ![opcode_parts[2]] = registers[opcode_parts[3]]])

\* variant: the value is stored to the memory cell x as well
mov_x_stores ==
    /\ Dispatch(8)
    /\ registers' = [registers EXCEPT ![opcode_parts[2]] = opcode_parts[3]]
    /\ memory' = [a \in (DOMAIN memory) \cup {opcode_parts[2]} |->
                     IF a = opcode_parts[2] THEN opcode_parts[3] ELSE memory[a]]
    /\ program_counter' = AdvancedPc
    /\ current_opcode' = FetchOpcode
    /\ UNCHANGED <<stack, stack_pointer, status, panic_msg, overflow_checks, inspection>>

\* variant: the value is the low byte of the word
mov_x_low_byte ==
    /\ Dispatch(8)
    /\ Continue([registers EXCEPT ![opcode_parts[2]] =
                    opcode_parts[3] * 16 + opcode_parts[4]])

\* the value run passes to mov_x for the word w: opcode_parts.2
MovImmediate(w) == process_opcode(w)[3]

mov_x ==
    /\ Dispatch(8)
    /\ Continue([registers EXCEPT ![opcode_parts[2]] = opcode_parts[3]])

\* variant: the middle field is not shifted
JumpAddressUnshifted(p1, p2, p3) == BitOr(BitOr(Shl16(p1, 8), p2), p3)

\* the address Cpu::jump builds from the three fields
JumpAddress(p1, p2, p3) == BitOr(BitOr(Shl16(p1, 8), Shl16(p2, 4)), p3)

JumpTarget == JumpAddress(opcode_parts[2], opcode_parts[3], opcode_parts[4])

\* variant: the arm of JUMP falls through to the advance
jump_then_advance ==
    /\ Dispatch(9)
    /\ program_counter' = JumpTarget + 2
    /\ current_opcode' = FetchOpcode
    /\ UNCHANGED <<registers, memory, stack, stack_pointer, status, panic_msg,
                   overflow_checks, inspection>>

\* the arm ends in `continue`: the advance of the loop body is skipped
jump ==
    /\ Dispatch(9)
    /\ program_counter' = JumpTarget
    /\ current_opcode' = FetchOpcode
    /\ UNCHANGED <<registers, memory, stack, stack_pointer, status, panic_msg,
                   overflow_checks, inspection>>

\* variant: CALL stores the address after the CALL word
PushedAddressAfterCall == (program_counter + 2) % 65536

\* the value CALL stores: self.program_counter as u16
PushedAddress == program_counter % 65536

\* variant: the slot index wraps around the 16 slots instead of being checked
call_wrapping ==
    /\ Dispatch(10)
    /\ stack' = [stack EXCEPT ![UsizeIndex(stack_pointer) % StackSize] = PushedAddress]
    /\ stack_pointer' = UsizeOf((UsizeIndex(stack_pointer) % StackSize) + 1)
    /\ program_counter' = JumpTarget
    /\ current_opcode' = FetchOpcode
    /\ UNCHANGED <<registers, memory, status, panic_msg, overflow_checks, inspection>>

call ==
    /\ Dispatch(10)
    /\ IF UsizeLt(stack_pointer, StackSize)
       THEN /\ stack' = [stack EXCEPT ![UsizeIndex(stack_pointer)] = PushedAddress]
            /\ stack_pointer' = UsizeOf(UsizeIndex(stack_pointer) + 1)
            /\ program_counter' = JumpTarget
            /\ current_opcode' = FetchOpcode
            /\ UNCHANGED <<registers, memory, status, panic_msg, overflow_checks, inspection>>
       ELSE Panic("index out of bounds") /\ UNCHANGED stack_pointer

\* variant: RET takes the oldest return address, slot 0
ret_from_bottom ==
    /\ Dispatch(11)
    /\ IF stack_pointer = UsizeOf(0) /\ overflow_checks
       THEN Panic("attempt to subtract with overflow") /\ UNCHANGED stack_pointer
       ELSE LET sp == UsizeWrappingDec(stack_pointer) IN
            IF UsizeLt(sp, StackSize)
            THEN /\ stack_pointer' = sp
                 /\ program_counter' = stack[0] + 2
                 /\ current_opcode' = FetchOpcode
                 /\ UNCHANGED <<registers, memory, stack, status, panic_msg,
                                overflow_checks, inspection>>
            ELSE Panic("index out of bounds") /\ stack_pointer' = sp

\* the arm does not `continue`: the popped address is advanced by 2
ret ==
    /\ Dispatch(11)
    /\ IF stack_pointer = UsizeOf(0) /\ overflow_checks
       THEN Panic("attempt to subtract with overflow") /\ UNCHANGED stack_pointer
       ELSE LET sp == UsizeWrappingDec(stack_pointer) IN
            IF UsizeLt(sp, StackSize)
            THEN /\ stack_pointer' = sp
                 /\ program_counter' = stack[UsizeIndex(sp)] + 2
                 /\ current_opcode' = FetchOpcode
                 /\ UNCHANGED <<registers, memory, stack, status, panic_msg,
                                overflow_checks, inspection>>
            ELSE Panic("index out of bounds") /\ stack_pointer' = sp

Next ==
    \/ LoopExit
    \/ Halt
    \/ Nop
    \/ NotImplemented
    \/ add_y_x
    \/ add_x
    \/ or_y_x
    \/ or_x
    \/ and_y_x
    \/ and_x
    \/ mov_y_x
    \/ mov_x
    \/ jump
    \/ call
    \/ ret

Spec == Init /\ [][Next]_vars

(* ------------------------------------------------------------------ *)
(* Every 16-bit word as the first instruction                         *)
(* ------------------------------------------------------------------ *)
\* a register file the caller fills entirely: cpu.registers[i] = value
FilledRegisters(rv) == [i \in 0 .. NumRegisters - 1 |-> (rv[1] + i * rv[2]) % 256]

\* registers 200, 44, 144, 244, 88, 188, 32, 132, 232, 76, 176, 20, 120, 220, 64, 164
AllWordsRegisters == FilledRegisters(<<200, 100>>)

InitAllWords ==
    \E w \in 0 .. 65535, oc \in BOOLEAN :
        /\ registers = AllWordsRegisters
        /\ memory = PokeWord(Library, 0, w)
        /\ program_counter = 0
        /\ stack = ZeroStack
        /\ stack_pointer = UsizeOf(0)
        /\ current_opcode = 0
        /\ status = "running"
        /\ panic_msg = "none"
        /\ overflow_checks = oc
        /\ inspection = <<>>

SpecAllWords == InitAllWords /\ [][Next]_vars

(* ------------------------------------------------------------------ *)
(* Memories without a terminating word: one word in every cell pair   *)
(* ------------------------------------------------------------------ *)
\* 0x0111 NOP, 0x20F0 ADD-IMM r0 + 15 -> r0
FillWords == {273, 8432}

\* cpu.memory[a] = ... for every a, the word w at every even address
FilledMemory(w) ==
    [a \in 0 .. MemSize - 1 |-> IF a % 2 = 0 THEN w \div 256 ELSE w % 256]

InitFilled ==
    \E w \in FillWords, rv \in RegInits, oc \in BOOLEAN :
        /\ registers = [ZeroRegisters EXCEPT ![0] = rv[1], ![1] = rv[2]]
        /\ memory = FilledMemory(w)
        /\ program_counter = 0
        /\ stack = ZeroStack
        /\ stack_pointer = UsizeOf(0)
        /\ current_opcode = 0
        /\ status = "running"
        /\ panic_msg = "none"
        /\ overflow_checks = oc
        /\ inspection = <<>>

\* the programs of Init and the filled memories
InitAny == Init \/ InitFilled

SpecFilled == InitAny /\ [][Next]_vars

(* ------------------------------------------------------------------ *)
(* The host reads registers back after run has returned               *)
(* ------------------------------------------------------------------ *)
\* the values of register_num the host passes (a u8)
InspectIndices == {0, 2, 15, 16, 255}

\* variant: the index is reduced to the 16 registers instead of being checked
get_value_at_register_wrapping ==
    /\ status \in {"halted", "ended"}
    /\ \E register_num \in InspectIndices :
          inspection' = <<register_num, registers[register_num % NumRegisters]>>
    /\ UNCHANGED <<registers, memory, program_counter, stack, stack_pointer,
                   current_opcode, status, panic_msg, overflow_checks>>

\* inspection = <<register_num, returned value>>, or <<register_num>> when the
\* indexing self.registers[register_num as usize] aborts
get_value_at_register ==
    /\ status \in {"halted", "ended"}
    /\ \E register_num \in InspectIndices :
          IF register_num < NumRegisters
          THEN /\ inspection' = <<register_num, registers[register_num]>>
               /\ UNCHANGED <<status, panic_msg>>
          ELSE /\ inspection' = <<register_num>>
               /\ status' = "panicked"
               /\ panic_msg' = "index out of bounds"
    /\ UNCHANGED <<registers, memory, program_counter, stack, stack_pointer,
                   current_opcode, overflow_checks>>

NextHost ==
    \/ Next
    \/ get_value_at_register

SpecHost == Init /\ [][NextHost]_vars

(* ------------------------------------------------------------------ *)
(* Types                                                              *)
(* ------------------------------------------------------------------ *)
TypeOK ==
    /\ registers \in [0 .. NumRegisters - 1 -> 0 .. 255]
    /\ DOMAIN memory \subseteq 0 .. MemSize - 1
    /\ \A a \in DOMAIN memory : memory[a] \in 0 .. 255
    /\ program_counter \in 0 .. MemSize
    /\ stack \in [0 .. StackSize - 1 -> 0 .. 65535]
    /\ stack_pointer \in [1 .. UsizeLimbs -> 0 .. LimbBase - 1]
    /\ current_opcode \in 0 .. 65535
    /\ status \in {"running", "halted", "ended", "panicked"}
    /\ overflow_checks \in BOOLEAN
    /\ inspection \in Seq(0 .. 255) /\ Len(inspection) <= 2

(* ------------------------------------------------------------------ *)
(* Vocabulary of the properties: the cycle about to run, read off the  *)
(* memory cells by arithmetic                                          *)
(* ------------------------------------------------------------------ *)
WordAtPc == MemoryAt(program_counter) * 256 + MemoryAt(program_counter + 1)
OpField == WordAtPc \div 4096
XField == (WordAtPc \div 256) % 16
YField == (WordAtPc \div 16) % 16
ZField == WordAtPc % 16
AddressField == XField * 256 + YField * 16 + ZField

\* the stack pointer holds a number of the set S (numbers up to 2^16)
SpIn(S) == \E n \in S : stack_pointer = UsizeOf(n)

\* the number the stack pointer holds, when it is one of 0 .. 2^16 - 1
SpNum == stack_pointer[1]

\* a cycle of the loop body starts in this state
CycleStarts == status = "running" /\ program_counter < 4095

\* the cycle about to run dispatches a word of operation op
CycleOf(op) == CycleStarts /\ WordAtPc # 0 /\ OpField = op

(* ------------------------------------------------------------------ *)
(* C1  CALL with fewer than 16 active return addresses stores the pc   *)
(* of the CALL word in slot stack_pointer, sets pc to the target and   *)
(* adds one to the stack pointer; no other instruction writes a slot;  *)
(* RET takes the top slot P, sets pc to P + 2 and puts the stack       *)
(* pointer back by one: the matching RET resumes right after the CALL. *)
(* ------------------------------------------------------------------ *)
C1_CallThenRet ==
    [][ /\ (CycleOf(10) /\ SpIn(0 .. 15)) =>
              /\ stack'[SpNum] = program_counter
              /\ \A i \in 0 .. 15 : i # SpNum => stack'[i] = stack[i]
              /\ program_counter' = AddressField
              /\ stack_pointer' = UsizeOf(SpNum + 1)
        /\ (CycleOf(11) /\ SpIn(1 .. 16)) =>
              /\ program_counter' = stack[SpNum - 1] + 2
              /\ stack_pointer' = UsizeOf(SpNum - 1)
        /\ ~CycleOf(10) => stack' = stack
      ]_vars

\* NOP at 0, CALL 0x100 at 2, the callee has returned: pc = 2 + 2, stack empty
C1_Witness ==
    /\ status = "running"
    /\ current_opcode = 45056
    /\ stack[0] = 2
    /\ stack_pointer = UsizeOf(0)
    /\ program_counter = 4

(* ------------------------------------------------------------------ *)
(* C2  as stated: in a cycle of JUMP, CALL or RET the pc at the end of *)
(* the cycle is the value the handler set, without the advance; in     *)
(* every other cycle that goes on, pc increases by 2.                  *)
(* ------------------------------------------------------------------ *)
C2_AsStated ==
    [][ (CycleStarts /\ WordAtPc # 0 /\ status' = "running") =>
            IF OpField \in {9, 10} THEN program_counter' = AddressField
            ELSE IF OpField = 11 THEN program_counter' = stack[SpNum - 1]
            ELSE program_counter' = program_counter + 2
      ]_vars

(* C2  amended: JUMP and CALL leave pc at the target, without the      *)
(* advance; RET sets pc to the popped address and the advance is then  *)
(* applied (popped + 2); every other cycle that goes on adds 2 to pc.  *)
C2_RedirectAndAdvance ==
    [][ (CycleStarts /\ WordAtPc # 0 /\ status' = "running") =>
            IF OpField \in {9, 10} THEN program_counter' = AddressField
            ELSE IF OpField = 11 THEN program_counter' = stack[SpNum - 1] + 2
            ELSE program_counter' = program_counter + 2
      ]_vars

\* a JUMP to 0xFFE has just run: pc is the target itself
C2_Witness ==
    /\ status = "running"
    /\ current_opcode = 40958
    /\ program_counter = 4094

(* ------------------------------------------------------------------ *)
(* C3  as stated: in every reachable state pc is even and in 0..4095.  *)
(* ------------------------------------------------------------------ *)
C3_AsStated == program_counter % 2 = 0 /\ program_counter \in 0 .. 4095

AllEven == program_counter % 2 = 0 /\ \A i \in 0 .. 15 : stack[i] % 2 = 0
OddRedirect == (CycleOf(9) \/ CycleOf(10)) /\ AddressField % 2 = 1

(* C3  amended: before and after every step of the run pc is in       *)
(* 0..4096, and pc (and every stored return address) stays even        *)
(* through every cycle that is not a JUMP or CALL to an odd address.   *)
C3_PcRangeAndParity ==
    [][ /\ program_counter \in 0 .. 4096
        /\ program_counter' \in 0 .. 4096
        /\ (AllEven /\ ~OddRedirect) => AllEven'
      ]_vars

\* the run has advanced past the last word of memory
C3_Witness ==
    /\ program_counter = 4096
    /\ status = "ended"
    /\ current_opcode = 273

(* ------------------------------------------------------------------ *)
(* C4  whenever the loop body is entered, the two cells the fetch      *)
(* reads, pc and pc + 1, are cells of memory: both in 0..4095.         *)
(* ------------------------------------------------------------------ *)
C4_FetchInBounds ==
    (status = "running" /\ LoopCond) => FetchCells \subseteq 0 .. 4095

\* after JUMP 0xFFF the loop condition is tested with pc = 4095
C4_Witness ==
    /\ program_counter = 4095
    /\ status = "running"
    /\ current_opcode = 40959

(* ------------------------------------------------------------------ *)
(* C5  ADD-REG writes (reg[x] + reg[y]) mod 256 to reg[z], ADD-IMM     *)
(* writes (reg[x] + imm) mod 256 to reg[z], and the run goes on.       *)
(* ------------------------------------------------------------------ *)
C5_WrappingAdd ==
    [][ /\ CycleOf(1) =>
              /\ registers'[ZField] = (registers[XField] + registers[YField]) % 256
              /\ status' = "running"
        /\ CycleOf(2) =>
              /\ registers'[ZField] = (registers[XField] + YField) % 256
              /\ status' = "running"
      ]_vars

(* ------------------------------------------------------------------ *)
(* C6  when the word at pc is 0x0000 the run stops in that cycle with  *)
(* registers, memory, call stack, stack pointer and pc as they were,   *)
(* and no step is ever taken from a halted state.                      *)
(* ------------------------------------------------------------------ *)
C6_HaltStops ==
    [][ /\ status # "halted"
        /\ (CycleStarts /\ WordAtPc = 0) =>
              /\ status' = "halted"
              /\ UNCHANGED <<registers, memory, stack, stack_pointer, program_counter>>
      ]_vars

\* halted at the 0x0000 word of address 2 after an ADD-REG; memory beyond is not empty
C6_Witness ==
    /\ status = "halted"
    /\ program_counter = 2
    /\ registers[2] = 7
    /\ \E a \in DOMAIN memory : a > 3 /\ memory[a] # 0

(* ------------------------------------------------------------------ *)
(* C7  a CALL executed with stack pointer 16 aborts the run: the 16    *)
(* slots keep their values, no slot is added, the stack pointer stays  *)
(* 16 and pc is not set to the target.                                 *)
(* ------------------------------------------------------------------ *)
C7_CallOverflowAborts ==
    [][ (CycleOf(10) /\ stack_pointer = UsizeOf(16)) =>
            /\ status' = "panicked"
            /\ stack' = stack
            /\ DOMAIN stack' = 0 .. 15
            /\ stack_pointer' = UsizeOf(16)
            /\ program_counter' = program_counter
      ]_vars

\* the 17th CALL 0x000 of a program that calls itself
C7_Witness ==
    /\ status = "panicked"
    /\ panic_msg = "index out of bounds"
    /\ current_opcode = 40960
    /\ stack_pointer = UsizeOf(16)

(* ------------------------------------------------------------------ *)
(* C8  a RET executed with stack pointer 0 aborts the run: the stack   *)
(* pointer does not wrap (it stays 0) and pc is not loaded from a slot.*)
(* ------------------------------------------------------------------ *)
C8_RetUnderflowAborts ==
    [][ (CycleOf(11) /\ stack_pointer = UsizeOf(0)) =>
            /\ status' = "panicked"
            /\ stack_pointer' = UsizeOf(0)
            /\ program_counter' = program_counter
      ]_vars

(* ------------------------------------------------------------------ *)
(* C9  as stated: every JUMP or CALL cycle sets pc to                  *)
(* x * 256 + y * 16 + z, a value in 0..4095, and changes no register.  *)
(* ------------------------------------------------------------------ *)
C9_AsStated ==
    [][ (CycleOf(9) \/ CycleOf(10)) =>
            /\ program_counter' = XField * 256 + YField * 16 + ZField
            /\ program_counter' \in 0 .. 4095
            /\ registers' = registers
      ]_vars

(* C9  amended: every JUMP cycle, and every CALL cycle with fewer than *)
(* 16 active return addresses, sets pc to x * 256 + y * 16 + z, a      *)
(* value in 0..4095, and changes no register.                          *)
C9_TargetIsAddressField ==
    [][ (CycleOf(9) \/ (CycleOf(10) /\ SpIn(0 .. 15))) =>
            /\ program_counter' = XField * 256 + YField * 16 + ZField
            /\ program_counter' \in 0 .. 4095
            /\ registers' = registers
      ]_vars

\* CALL 0x200 at address 0 has just run: pc = 2 * 256 + 0 * 16 + 0
C9_Witness ==
    /\ status = "running"
    /\ current_opcode = 41472
    /\ program_counter = 512
    /\ stack_pointer = UsizeOf(1)

(* ------------------------------------------------------------------ *)
(* C10  a cycle of the word 0x0111, of a word of operation 12..15, or  *)
(* of a word of operation 0 other than 0x0000 and 0x0111 leaves the    *)
(* registers, memory, call stack and stack pointer as they were, adds  *)
(* 2 to pc, and the run goes on.                                       *)
(* ------------------------------------------------------------------ *)
C10_NoHandlerIsNoOp ==
    [][ (CycleStarts /\ WordAtPc # 0 /\ (OpField = 0 \/ OpField \in 12 .. 15)) =>
            /\ UNCHANGED <<registers, memory, stack, stack_pointer>>
            /\ program_counter' = program_counter + 2
            /\ status' = "running"
      ]_vars

(* ------------------------------------------------------------------ *)
(* Bitwise | and & of two 8-bit values, bit by bit                     *)
(* ------------------------------------------------------------------ *)
BitOf(a, i) == (a \div (2 ^ i)) % 2

Or8(a, b) ==
    LET bit(i) == IF BitOf(a, i) = 1 \/ BitOf(b, i) = 1 THEN 2 ^ i ELSE 0
    IN  bit(0) + bit(1) + bit(2) + bit(3) + bit(4) + bit(5) + bit(6) + bit(7)

And8(a, b) ==
    LET bit(i) == IF BitOf(a, i) = 1 /\ BitOf(b, i) = 1 THEN 2 ^ i ELSE 0
    IN  bit(0) + bit(1) + bit(2) + bit(3) + bit(4) + bit(5) + bit(6) + bit(7)

(* ------------------------------------------------------------------ *)
(* C11  OR-REG writes reg[x] | reg[y], OR-IMM writes reg[x] | imm,     *)
(* AND-REG writes reg[x] & reg[y] and AND-IMM writes reg[x] & imm to   *)
(* reg[z], the operands being the values before the cycle, also when   *)
(* z is x or y; imm is the y field of the word.                        *)
(* ------------------------------------------------------------------ *)
C11_OrAndResults ==
    [][ /\ CycleOf(3) => registers'[ZField] = Or8(registers[XField], registers[YField])
        /\ CycleOf(4) => registers'[ZField] = Or8(registers[XField], YField)
        /\ CycleOf(5) => registers'[ZField] = And8(registers[XField], registers[YField])
        /\ CycleOf(6) => registers'[ZField] = And8(registers[XField], YField)
      ]_vars

\* OR-REG r0, r1 -> r1 (0x3011) has run on r0 = 200, r1 = 44: r1 = 200 | 44 = 236
C11_Witness ==
    /\ status = "running"
    /\ current_opcode = 12305
    /\ registers[0] = 200
    /\ registers[1] = 236
    /\ program_counter = 2

(* ------------------------------------------------------------------ *)
(* C12  whenever a cycle starts, the word W fetched big-endian from    *)
(* memory[pc] (high byte) and memory[pc + 1] (low byte) decodes to     *)
(* four fields, each in 0..15, with                                    *)
(* operation * 4096 + x * 256 + y * 16 + z = W; so x, y and z are      *)
(* indices of the 16 registers.                                        *)
(* ------------------------------------------------------------------ *)
C12_DecodeFields ==
    CycleStarts =>
        LET W == MemoryAt(program_counter) * 256 + MemoryAt(program_counter + 1)
            p == process_opcode(FetchOpcode)
        IN  /\ FetchOpcode = W
            /\ Len(p) = 4
            /\ \A i \in 1 .. 4 : p[i] \in 0 .. 15
            /\ p[1] * 4096 + p[2] * 256 + p[3] * 16 + p[4] = W
            /\ {p[2], p[3], p[4]} \subseteq DOMAIN registers
            /\ DOMAIN registers = 0 .. 15

\* MOV-IMM 0x8A5F has run: x = 10 selected register 10, y = 5 was the value
C12_Witness ==
    /\ status = "running"
    /\ current_opcode = 35423
    /\ registers[10] = 5
    /\ program_counter = 2

(* ------------------------------------------------------------------ *)
(* C13  MOV-REG sets reg[x] to reg[y] and MOV-IMM sets reg[x] to the   *)
(* immediate (the y field), nothing else in the register file; and a   *)
(* MOV word that runs right after a cycle of the same word leaves the  *)
(* register file as that first cycle left it.                          *)
(* ------------------------------------------------------------------ *)
C13_MovIdempotent ==
    [][ /\ CycleOf(7) => registers' = [registers EXCEPT ![XField] = registers[YField]]
        /\ CycleOf(8) => registers' = [registers EXCEPT ![XField] = YField]
        /\ ((CycleOf(7) \/ CycleOf(8)) /\ current_opcode = WordAtPc) =>
              registers' = registers
      ]_vars

\* MOV-REG r0 <- r1 (0x701F) at addresses 0 and 2 has run twice on r0 = 3, r1 = 4
C13_Witness ==
    /\ status = "running"
    /\ current_opcode = 28703
    /\ program_counter = 4
    /\ MemoryAt(0) = 112 /\ MemoryAt(1) = 31
    /\ MemoryAt(2) = 112 /\ MemoryAt(3) = 31
    /\ registers[0] = 4
    /\ registers[1] = 4

(* ------------------------------------------------------------------ *)
(* C14  a register inspection with an index in 0..15 returns the       *)
(* current value of that register; with an index outside 0..15 it      *)
(* fails (no value is returned, the call aborts on the index); either  *)
(* way registers, memory, pc, call stack and stack pointer are as      *)
(* before the call.                                                    *)
(* ------------------------------------------------------------------ *)
C14_Inspection ==
    [][ (status \in {"halted", "ended"}) =>
            /\ Len(inspection') \in {1, 2}
            /\ inspection'[1] \in 0 .. 15 =>
                  /\ Len(inspection') = 2
                  /\ inspection'[2] = registers[inspection'[1]]
                  /\ status' = status
            /\ inspection'[1] \notin 0 .. 15 =>
                  /\ Len(inspection') = 1
                  /\ status' = "panicked"
                  /\ panic_msg' = "index out of bounds"
            /\ UNCHANGED <<registers, memory, program_counter, stack, stack_pointer>>
      ]_vars

\* after ADD-REG r0, r1 -> r2 on 3 and 4 and the halt, index 16 was refused
C14_Witness ==
    /\ inspection = <<16>>
    /\ status = "panicked"
    /\ registers[2] = 7
    /\ current_opcode = 0

\* ... and index 2 returned the 7
C14_WitnessInRange ==
    /\ inspection = <<2, 7>>
    /\ status = "halted"

(* ------------------------------------------------------------------ *)
(* C15  before and after every step the stack pointer is in 0..16; a   *)
(* CALL that goes on adds one to it, a RET that goes on takes one off, *)
(* and no other step changes it: starting from 0, it is the number of  *)
(* CALLs executed minus the number of RETs executed.                   *)
(* ------------------------------------------------------------------ *)
C15_StackPointerCounts ==
    [][ /\ SpIn(0 .. 16)
        /\ SpIn(0 .. 16)'
        /\ (CycleOf(10) /\ status' = "running") => stack_pointer' = UsizeOf(SpNum + 1)
        /\ (CycleOf(11) /\ status' = "running") => stack_pointer' = UsizeOf(SpNum - 1)
        /\ (~CycleOf(10) /\ ~CycleOf(11)) => stack_pointer' = stack_pointer
      ]_vars

(* ------------------------------------------------------------------ *)
(* C16  the call stack is last in, first out: a CALL (fewer than 16    *)
(* active) puts its own address in the slot just above the active      *)
(* ones and touches no other slot; a RET (at least one active) resumes *)
(* at the address of the topmost active slot + 2, makes the slot below *)
(* the top one and changes no slot; no other instruction changes an    *)
(* active slot; and every active slot holds the address of a CALL      *)
(* word.  So after CALLs at P1, ..., Pk the RETs resume at Pk + 2,     *)
(* ..., P1 + 2.                                                        *)
(* ------------------------------------------------------------------ *)
C16_LifoReturns ==
    [][ /\ (CycleOf(10) /\ SpIn(0 .. 15)) =>
              /\ stack' = [stack EXCEPT ![SpNum] = program_counter]
              /\ stack_pointer' = UsizeOf(SpNum + 1)
        /\ (CycleOf(11) /\ SpIn(1 .. 16)) =>
              /\ program_counter' = stack[SpNum - 1] + 2
              /\ stack_pointer' = UsizeOf(SpNum - 1)
              /\ stack' = stack
        /\ ~CycleOf(10) =>
              \A i \in 0 .. 15 : ~UsizeLt(stack_pointer, i + 1) => stack'[i] = stack[i]
        /\ SpIn(0 .. 16)' =>
              \A i \in 0 .. 15 : i < SpNum' => MemoryAt(stack'[i]) \div 16 = 10
      ]_vars

\* CALL 0x200 at 0, CALL 0x100 at 0x200, then two RETs: resumed at 0x202, now at 2
C16_Witness ==
    /\ status = "running"
    /\ current_opcode = 45056
    /\ stack[0] = 0
    /\ stack[1] = 512
    /\ stack_pointer = UsizeOf(0)
    /\ program_counter = 2

\* the state between the two RETs: one address still active, resumed at 0x200 + 2
C16_WitnessInner ==
    /\ status = "running"
    /\ current_opcode = 45056
    /\ stack[1] = 512
    /\ stack_pointer = UsizeOf(1)
    /\ program_counter = 514

(* ------------------------------------------------------------------ *)
(* C17  no step of run changes memory: every cell keeps the value the  *)
(* caller supplied before run started.                                 *)
(* ------------------------------------------------------------------ *)
C17_MemoryUnchanged ==
    [][ /\ memory' = memory
        /\ \A a \in DOMAIN memory : MemoryAt(a)' = memory[a]
      ]_vars

\* MOV-IMM r0 <- 15 and ADD-REG have run and the run has halted at 4:
\* the program and the callee at 0x100 are still the bytes the caller wrote
C17_Witness ==
    /\ status = "halted"
    /\ program_counter = 4
    /\ registers[0] = 15
    /\ MemoryAt(0) = 128 /\ MemoryAt(1) = 242
    /\ MemoryAt(2) = 16 /\ MemoryAt(3) = 18
    /\ MemoryAt(256) = 16 /\ MemoryAt(257) = 18
    /\ MemoryAt(4094) = 1 /\ MemoryAt(4095) = 17

(* ------------------------------------------------------------------ *)
(* C18  as stated: every value in 0..255 can be supplied as the        *)
(* immediate: for each there is a MOV-IMM word (operation 8, words     *)
(* 0x8000..0x8FFF) that loads it into a register of the current file.  *)
(* ------------------------------------------------------------------ *)
C18_AsStated ==
    \A v \in 0 .. 255 : \E w \in 32768 .. 36863 :
        LET x == process_opcode(w)[2]
        IN  [registers EXCEPT ![x] = MovImmediate(w)][x] = v

(* C18  amended: the immediate of ADD-IMM, OR-IMM, AND-IMM and MOV-IMM *)
(* is the 4-bit y field of the word, a value in 0..15: ADD-IMM (when   *)
(* its cycle goes on), OR-IMM and AND-IMM combine reg[x] with the y    *)
(* field, and MOV-IMM loads the y field, never a value above 15.       *)
C18_ImmediateIsYField ==
    [][ /\ (CycleOf(2) /\ status' = "running") =>
              registers'[ZField] = (registers[XField] + YField) % 256
        /\ CycleOf(4) => registers'[ZField] = Or8(registers[XField], YField)
        /\ CycleOf(6) => registers'[ZField] = And8(registers[XField], YField)
        /\ CycleOf(8) =>
              /\ registers'[XField] = (WordAtPc \div 16) % 16
              /\ registers'[XField] \in 0 .. 15
      ]_vars

\* MOV-IMM 0x80F2 has run on r0 = 200: r0 is 15, the y field, not 0xF2
C18_Witness ==
    /\ status = "running"
    /\ current_opcode = 33010
    /\ registers[0] = 15
    /\ registers[1] = 44
    /\ program_counter = 2

(* ------------------------------------------------------------------ *)
(* C19  a cycle of operation 1..6 changes no register other than       *)
(* reg[z], a cycle of operation 7 or 8 no register other than reg[x],  *)
(* and neither changes the call stack or the stack pointer; a cycle of *)
(* JUMP, CALL or RET changes no register.                              *)
(* ------------------------------------------------------------------ *)
C19_OneDestination ==
    [][ /\ (CycleStarts /\ OpField \in 1 .. 6) =>
              \A i \in 0 .. 15 : i # ZField => registers'[i] = registers[i]
        /\ (CycleStarts /\ OpField \in 7 .. 8) =>
              \A i \in 0 .. 15 : i # XField => registers'[i] = registers[i]
        /\ (CycleStarts /\ OpField \in 1 .. 8) =>
              /\ stack' = stack
              /\ stack_pointer' = stack_pointer
        /\ (CycleStarts /\ OpField \in 9 .. 11) => registers' = registers
      ]_vars

\* AND-IMM r0 & 15 -> r2 (0x60F2) has run on r0 = 200: r2 = 8, the others as filled
C19_Witness ==
    /\ status = "running"
    /\ current_opcode = 24818
    /\ registers[2] = 8
    /\ \A i \in 0 .. 15 : i # 2 => registers[i] = (200 + i * 100) % 256
    /\ stack_pointer = UsizeOf(0)
    /\ program_counter = 2

(* ------------------------------------------------------------------ *)
(* C20  in a run that has executed no JUMP, CALL or RET (pc is even    *)
(* and every word at an even address below pc is neither 0x0000 nor of *)
(* operation 9..11), a cycle of a word that is not of operation 9..11  *)
(* either stops the run at a 0x0000 word or adds 2 to pc and goes on,  *)
(* and the loop is left only with pc = 4096: pc is twice the number of *)
(* cycles, so the run ends within 2048 cycles, at the first 0x0000     *)
(* word or at pc = 4096.  A JUMP to its own address changes nothing.   *)
(* ------------------------------------------------------------------ *)
WordAt(a) == MemoryAt(a) * 256 + MemoryAt(a + 1)

StraightSoFar ==
    /\ program_counter % 2 = 0
    /\ stack_pointer = UsizeOf(0)
    /\ \A k \in 0 .. (program_counter \div 2) - 1 :
          WordAt(2 * k) # 0 /\ WordAt(2 * k) \div 4096 \notin 9 .. 11

C20_StraightRunsEnd ==
    [][ /\ (StraightSoFar /\ CycleStarts /\ OpField \notin 9 .. 11) =>
              IF WordAtPc = 0
              THEN status' = "halted" /\ program_counter' = program_counter
              ELSE /\ status' = "running"
                   /\ program_counter' = program_counter + 2
                   /\ program_counter' <= 4096
        /\ (StraightSoFar /\ status = "running" /\ ~CycleStarts) =>
              program_counter = 4096 /\ status' = "ended"
        /\ (CycleOf(9) /\ AddressField = program_counter) =>
              UNCHANGED <<program_counter, registers, memory, stack, stack_pointer, status>>
      ]_vars

====
